---- MODULE Spec2Model ----
(***************************************************************************)
(* Catalogue crawl-and-export scripts of DavTEB/OPC_P2.                    *)
(*                                                                         *)
(* The repository holds five near-duplicate crawlers:                      *)
(*   test2_image         scrape_all_books + save_image (with images_log)   *)
(*   images_book_data    scrape_all_books + save_image (retry, no .part)   *)
(*   books_data_images   scrape_all + download_image                       *)
(*   all_books_data      scrape_all_books (no images)                      *)
(*   category_books_data scrape_category (no images, no page budget)       *)
(*                                                                         *)
(* Part 1 models the crawl loops (specification Spec, and SpecLive with     *)
(* fairness); part 2 models the Asset Fetchers step by step over a small   *)
(* file system (SpecFetch); part 3 models the Extractor on the content of  *)
(* a product page (SpecPage); part 4 models the Exporter (SpecExport).     *)
(* The site and the network are the environment: every fetch draws its     *)
(* outcome ("ok", a transport failure, a non-success HTTP status).         *)
(***************************************************************************)
EXTENDS Integers, Sequences, FiniteSets, TLC

\* ------------------------------------------------------------------ bounds
MaxPages == 2
MaxPerPage == 2
MaxBudget == 2
MaxFaults == 2
MaxChunks == 2
MaxCalls == 2

\* Cap on page_number, so that a crawl of a cyclic site without budget stops.
MaxVisits == MaxBudget + 1

\* Python's None, for current_url / next_url / max_pages.
None == 0

T2 == "test2_image"
IBD == "images_book_data"
BDI == "books_data_images"
ABD == "all_books_data"
CBD == "category_books_data"
Variants == {T2, IBD, BDI, ABD, CBD}
BudgetVariants == {T2, IBD, BDI, ABD}

Pages == 1..MaxPages
Outcomes == {"ok", "transport", "http"}

\* ---------------------------------------------------------------- the site
\* The pagination control of a listing page: no "next" item, a "next" item
\* without an anchor, an anchor without href, or a link to a listing page.
PagerKinds ==
    {[kind |-> k, to |-> None] : k \in {"none", "noanchor", "nohref"}}
        \cup {[kind |-> "link", to |-> q] : q \in Pages}

\* Number of product pods on listing page p (page sizes differ).
PageSize(p) == IF p % 2 = 1 THEN MaxPerPage ELSE MaxPerPage - 1

\* The product locators of listing page p, in page order; a product URL is
\* <<page, position>>.
ProductLinks(p) == [i \in 1..PageSize(p) |-> <<p, i>>]

\* The category a product page shows; "" is a page whose category text is empty.
CategoryOf(u) ==
    IF u[2] % 2 = 1 THEN "Poetry" ELSE IF u[1] % 2 = 1 THEN "" ELSE "Fiction"

VARIABLES
    variant,        \* which script runs
    max_pages,      \* None or the page budget
    pager,          \* the site: pagination control of every listing page
    page,           \* the site: the product page served (part 3), else NoPage
    pc,             \* "list" | "items" | "done" | "raised"
    current_url,    \* listing page being crawled, None when the loop ends
    page_number,
    product_links,  \* locators of the current page
    idx,            \* position of the next locator to process
    by_category,    \* CategoryGroup: category key -> sequence of records
    \* history (not program state)
    visited,        \* pages whose listing was fetched for product links
    processed,      \* number of pages whose product loop ran on fetched links
    extracted,      \* <<key, record>> of every item processed with success
    faults,         \* number of failures the environment injected
    fetches,        \* number of network fetches issued by the crawl
    listingFailed,  \* a listing fetch (links or next) failed in this run
    absorbed,       \* a failed listing fetch came back as an ordinary result
    failSnap,       \* <<fetches, by_category>> at the first failed links fetch
    raisedBy        \* what the exception that ended the crawl came from

\* The crawl loop's variables, but the variant.
crawl == <<max_pages, pager, page, pc, current_url, page_number,
           product_links, idx, by_category, visited, processed, extracted,
           faults, fetches, listingFailed, absorbed, failSnap, raisedBy>>

VARIABLES
    image_url,      \* arguments of save_image / download_image
    category,
    upc,
    title,
    files,          \* the file system: path -> [written, total] (chunks)
    fpc,            \* "idle" | "get" | "write" | "retry"
    dest_path,      \* locals of the call in progress
    out_path,       \* the path the stream is written to
    images_log,     \* test2_image: the ImageDownloadLog of the crawl
    \* history (not program state)
    reqs,           \* the GET requests of the call in progress or just ended
    cause,          \* what failed in the call in progress ("" so far nothing)
    calls           \* one summary per finished call

fetch == <<image_url, category, upc, title, files, fpc, dest_path, out_path,
           images_log, reqs, cause, calls>>

VARIABLES
    csvs,           \* the output directory: file name -> the CSV file written
    epc,            \* "idle" | "write" | "done" | "raised"
    todo,           \* by_category.items() still to write, in dict order
    categories_written,
    total,
    \* history (not program state)
    failed          \* the categories whose file could not be written

export == <<csvs, epc, todo, categories_written, total, failed>>

cvars == <<variant, crawl, fetch, export>>

\* ------------------------------------------------------------ the network
\* What a GET of listing page p parses to: the page itself when the fetch
\* succeeds, the body of an error response (no product pod, no pagination
\* control) when the status is a non-success one.
Soup(p, o) ==
    IF o = "ok"
    THEN [products |-> ProductLinks(p), pager |-> pager[p]]
    ELSE [products |-> <<>>, pager |-> [kind |-> "none", to |-> None]]

\* ------------------------------------------------------------------ Lister
\* test2_image.get_soup: SESSION.get raises on a transport failure and
\* raise_for_status raises on a non-success status.
T2_get_soup(p, o) == [raised |-> o # "ok", soup |-> Soup(p, o)]

T2_parse_listing_product_links(p, o) ==
    LET r == T2_get_soup(p, o)
    IN  [raised |-> r.raised,
         links |-> IF r.raised THEN <<>> ELSE r.soup.products]

\* urljoin(current_url, nxt.get("href", "")): an anchor without href resolves
\* to the current URL itself.
T2_get_next_page_url(p, o) ==
    LET r == T2_get_soup(p, o)
        k == r.soup.pager
    IN  [raised |-> r.raised,
         next |-> IF r.raised THEN None
                  ELSE IF k.kind = "link" THEN k.to
                  ELSE IF k.kind = "nohref" THEN p
                  ELSE None]

BDI_get_soup(p, o) == [raised |-> o # "ok", soup |-> Soup(p, o)]

BDI_parse_listing_product_links(p, o) ==
    LET r == BDI_get_soup(p, o)
    IN  [raised |-> r.raised,
         links |-> IF r.raised THEN <<>> ELSE r.soup.products]

BDI_get_next_page_url(p, o) ==
    LET r == BDI_get_soup(p, o)
        k == r.soup.pager
    IN  [raised |-> r.raised,
         next |-> IF ~r.raised /\ k.kind = "link" THEN k.to ELSE None]

IBD_get_book_urls_from_page(p, o) ==
    [raised |-> o # "ok",
     links |-> IF o # "ok" THEN <<>> ELSE Soup(p, o).products]

IBD_get_next_page_url(p, o) ==
    LET k == Soup(p, o).pager
    IN  [raised |-> o # "ok",
         next |-> IF o = "ok" /\ k.kind = "link" THEN k.to ELSE None]

\* all_books_data: requests.get without raise_for_status. A transport failure
\* raises; the body of an error response is parsed like a listing page.
ABD_get_book_urls_from_page(p, o) ==
    [raised |-> o = "transport",
     links |-> IF o = "transport" THEN <<>> ELSE Soup(p, o).products]

\* next_link.find('a')['href'] raises KeyError on an anchor without href.
ABD_get_next_page_url(p, o) ==
    LET k == Soup(p, o).pager
    IN  [raised |-> o = "transport" \/ k.kind = "nohref",
         next |-> IF o # "transport" /\ k.kind = "link" THEN k.to ELSE None]

CBD_get_book_urls_from_page(p, o) ==
    [raised |-> o = "transport",
     links |-> IF o = "transport" THEN <<>> ELSE Soup(p, o).products]

\* next_link.find('a')['href'] with no check of the anchor: TypeError without
\* an anchor, KeyError without href.
CBD_get_next_page_url(p, o) ==
    LET k == Soup(p, o).pager
    IN  [raised |-> o = "transport" \/ k.kind \in {"noanchor", "nohref"},
         next |-> IF o # "transport" /\ k.kind = "link" THEN k.to ELSE None]

\* Mutant of ListerNext: the selector of the "next" item never matches.
ListerNextNever(v, p, o) == [raised |-> o # "ok", next |-> None]

\* The Lister of each variant: product links, and the next-page locator.
ListerLinks(v, p, o) ==
    CASE v = T2 -> T2_parse_listing_product_links(p, o)
      [] v = BDI -> BDI_parse_listing_product_links(p, o)
      [] v = IBD -> IBD_get_book_urls_from_page(p, o)
      [] v = ABD -> ABD_get_book_urls_from_page(p, o)
      [] v = CBD -> CBD_get_book_urls_from_page(p, o)

ListerNext(v, p, o) ==
    CASE v = T2 -> T2_get_next_page_url(p, o)
      [] v = BDI -> BDI_get_next_page_url(p, o)
      [] v = IBD -> IBD_get_next_page_url(p, o)
      [] v = ABD -> ABD_get_next_page_url(p, o)
      [] v = CBD -> CBD_get_next_page_url(p, o)

\* --------------------------------------------------------------- Extractor
\* A record keeps the fields the crawl loops read or set.
Record(u, c, img) == [product_page_url |-> u, category |-> c, image_path |-> img]

\* What the Asset Fetcher hands back to the crawl loop: "saved" (a path),
\* "failed" (the empty path), "oserror" (os.makedirs raised, outside any try of
\* the fetcher), "none" (the variant has no Asset Fetcher).
AssetOutcomes(v) ==
    CASE v \in {T2, BDI} -> {"saved", "failed", "oserror"}
      [] v = IBD -> {"saved", "failed"}
      [] OTHER -> {"none"}

ImagePath(a) == IF a = "saved" THEN "img" ELSE ""

T2_extract_book_data(u, o) ==
    [raised |-> o # "ok", data |-> Record(u, CategoryOf(u), "")]

\* The body of the per-item try of test2_image.scrape_all_books.
T2_item(u, o, a) ==
    LET r == T2_extract_book_data(u, o)
        cat == IF r.data.category # "" THEN r.data.category ELSE "Default"
    IN  [raised |-> r.raised \/ a = "oserror",
         key |-> cat,
         data |-> [r.data EXCEPT !.image_path = ImagePath(a)]]

\* images_book_data.scrape_book catches whatever save_image raises.
IBD_scrape_book(u, o, a) ==
    [raised |-> o # "ok", data |-> Record(u, CategoryOf(u), ImagePath(a))]

IBD_item(u, o, a) ==
    LET r == IBD_scrape_book(u, o, a)
        cat == IF r.data.category # "" THEN r.data.category ELSE "Unknown"
    IN  [raised |-> r.raised, key |-> cat, data |-> r.data]

BDI_extract_book_data(u, o) ==
    [raised |-> o # "ok", data |-> Record(u, CategoryOf(u), "")]

BDI_item(u, o, a) ==
    LET r == BDI_extract_book_data(u, o)
        cat == IF r.data.category # "" THEN r.data.category ELSE "Default"
    IN  [raised |-> r.raised \/ a = "oserror",
         key |-> cat,
         data |-> [r.data EXCEPT !.image_path = ImagePath(a)]]

\* all_books_data.scrape_book: no raise_for_status, every absent element has a
\* default, so an error body yields a record of category "Unknown".
ABD_scrape_book(u, o) ==
    [raised |-> o = "transport",
     data |-> Record(u, IF o = "ok" THEN CategoryOf(u) ELSE "Unknown", "")]

ABD_item(u, o, a) ==
    LET r == ABD_scrape_book(u, o)
        cat == IF r.data.category # "" THEN r.data.category ELSE "Unknown"
    IN  [raised |-> r.raised, key |-> cat, data |-> r.data]

\* category_books_data.scrape_book: table.find_all on an absent table raises,
\* so an error body raises as a transport failure does.
CBD_scrape_book(u, o) ==
    [raised |-> o # "ok", data |-> Record(u, "", "")]

\* scrape_category appends to one list, all_books_data.
CBD_item(u, o, a) ==
    LET r == CBD_scrape_book(u, o)
    IN  [raised |-> r.raised, key |-> "all_books_data", data |-> r.data]

ItemBody(v, u, o, a) ==
    CASE v = T2 -> T2_item(u, o, a)
      [] v = IBD -> IBD_item(u, o, a)
      [] v = BDI -> BDI_item(u, o, a)
      [] v = ABD -> ABD_item(u, o, a)
      [] v = CBD -> CBD_item(u, o, a)

\* The variants whose product loop wraps each item in try/except.
CatchesItem(v) == v \in {T2, IBD, ABD}

\* Mutant of Insert: the record goes to the front of its category's list.
InsertFront(group, cat, data) ==
    IF cat \in DOMAIN group
    THEN [group EXCEPT ![cat] = <<data>> \o @]
    ELSE [c \in DOMAIN group \cup {cat} |->
             IF c = cat THEN <<data>> ELSE group[c]]

\* by_category.setdefault(cat, []).append(data)
Insert(group, cat, data) ==
    IF cat \in DOMAIN group
    THEN [group EXCEPT ![cat] = Append(@, data)]
    ELSE [c \in DOMAIN group \cup {cat} |->
             IF c = cat THEN <<data>> ELSE group[c]]

\* ----------------------------------------------------------------- Crawler
EmptyGroup == [c \in {} |-> <<>>]

\* Parts 1 and 2 do not look into a product page: category and image outcome
\* of an item are drawn by CategoryOf and AssetOutcomes.
\* A table without rows, a dict without keys.
NoRows == [l \in {} |-> <<>>]

NoPage == [table |-> FALSE, rows |-> NoRows, crumbs |-> <<>>]

\* No Asset Fetcher call is followed step by step during a crawl.
FetchIdle ==
    /\ image_url = [url |-> "", suffix |-> ""]
    /\ category = <<>>
    /\ upc = <<>>
    /\ title = <<>>
    /\ files = <<>>
    /\ fpc = "idle"
    /\ dest_path = [folder |-> <<>>, base |-> <<>>, ext |-> "", part |-> FALSE]
    /\ out_path = [folder |-> <<>>, base |-> <<>>, ext |-> "", part |-> FALSE]
    /\ images_log = <<>>
    /\ reqs = <<>>
    /\ cause = ""
    /\ calls = <<>>

\* The Exporter has not been called.
ExportIdle ==
    /\ csvs = NoRows
    /\ epc = "idle"
    /\ todo = <<>>
    /\ categories_written = 0
    /\ total = 0
    /\ failed = {}

Init ==
    /\ variant \in Variants
    /\ max_pages \in IF variant \in BudgetVariants
                     THEN {None} \cup (1..MaxBudget) ELSE {None}
    /\ pager \in [Pages -> PagerKinds]
    /\ page = NoPage
    /\ pc = "list"
    /\ current_url = 1
    /\ page_number = 1
    /\ product_links = <<>>
    /\ idx = 1
    /\ by_category = EmptyGroup
    /\ visited = <<>>
    /\ processed = 0
    /\ extracted = <<>>
    /\ faults = 0
    /\ fetches = 0
    /\ listingFailed = FALSE
    /\ absorbed = FALSE
    /\ failSnap = [set |-> FALSE, fetches |-> 0, page_number |-> 0,
                   groups |-> EmptyGroup]
    /\ raisedBy = ""
    /\ FetchIdle
    /\ ExportIdle

\* The environment injects at most MaxFaults failures in one run.
MayFail(bad) == bad => faults < MaxFaults

\* Mutant of BudgetReached: the comparison is off by one.
BudgetReachedLate == max_pages # None /\ page_number > max_pages

BudgetReached == max_pages # None /\ page_number >= max_pages

\* all_books_data checks the budget at the head of the loop.
HeadStop ==
    /\ pc = "list"
    /\ variant = ABD
    /\ max_pages # None /\ page_number > max_pages
    /\ pc' = "done"
    /\ UNCHANGED <<fetch, export, variant, max_pages, pager, page, current_url, page_number,
                   product_links, idx, by_category, visited, processed,
                   extracted, faults, fetches, listingFailed, absorbed,
                   failSnap, raisedBy>>

\* Mutant of OnListingRaise: test2_image goes on with no links instead of
\* leaving the loop.
OnListingRaiseGoOn(v) ==
    CASE v \in {T2, IBD} -> "items"
      [] OTHER -> "raised"

\* What the loop does with a listing fetch that raised: break (test2_image),
\* go on with no links (images_book_data), or let the exception out.
OnListingRaise(v) ==
    CASE v = T2 -> "done"
      [] v = IBD -> "items"
      [] OTHER -> "raised"

\* AT_PAGE(url): fetch the listing page for its product links.
FetchListing ==
    /\ pc = "list"
    /\ ~(variant = ABD /\ max_pages # None /\ page_number > max_pages)
    /\ \E o \in Outcomes :
        LET r == ListerLinks(variant, current_url, o) IN
        /\ MayFail(o # "ok")
        /\ pc' = IF r.raised THEN OnListingRaise(variant) ELSE "items"
        /\ product_links' = r.links
        /\ idx' = 1
        /\ visited' = Append(visited, current_url)
        /\ processed' = IF r.raised THEN processed ELSE processed + 1
        /\ faults' = IF o # "ok" THEN faults + 1 ELSE faults
        /\ fetches' = fetches + 1
        /\ listingFailed' = (listingFailed \/ o # "ok")
        /\ absorbed' = (absorbed \/ (o # "ok" /\ ~r.raised))
        /\ failSnap' = IF o # "ok" /\ ~failSnap.set
                       THEN [set |-> TRUE, fetches |-> fetches + 1,
                             page_number |-> page_number,
                             groups |-> by_category]
                       ELSE failSnap
        /\ raisedBy' = IF r.raised /\ OnListingRaise(variant) = "raised"
                       THEN "listing" ELSE raisedBy
    /\ UNCHANGED <<fetch, export, variant, max_pages, pager, page, current_url, page_number,
                   by_category, extracted>>

\* One turn of the product loop: Extractor, Asset Fetcher, insertion.
ProcessItem ==
    /\ pc = "items"
    /\ idx <= Len(product_links)
    /\ \E o \in Outcomes, a \in AssetOutcomes(variant) :
        LET u == product_links[idx]
            r == ItemBody(variant, u, o, a)
            bad == o # "ok" \/ a \in {"failed", "oserror"}
        IN
        /\ o # "ok" => a = CHOOSE x \in AssetOutcomes(variant) : TRUE
        /\ MayFail(bad)
        /\ faults' = IF bad THEN faults + 1 ELSE faults
        /\ fetches' = fetches + 1
        /\ IF r.raised
           THEN /\ UNCHANGED <<by_category, extracted>>
                /\ IF CatchesItem(variant)
                   THEN /\ idx' = idx + 1
                        /\ UNCHANGED <<pc, raisedBy>>
                   ELSE /\ pc' = "raised"
                        /\ raisedBy' = "item"
                        /\ UNCHANGED idx
           ELSE /\ by_category' = Insert(by_category, r.key, r.data)
                /\ extracted' = Append(extracted, <<r.key, r.data>>)
                /\ idx' = idx + 1
                /\ UNCHANGED <<pc, raisedBy>>
    /\ UNCHANGED <<fetch, export, variant, max_pages, pager, page, current_url, page_number,
                   product_links, visited, processed, listingFailed,
                   absorbed, failSnap>>

\* After the page: the budget check of test2_image, images_book_data and
\* books_data_images.
BudgetStop ==
    /\ pc = "items"
    /\ idx > Len(product_links)
    /\ variant \in {T2, IBD, BDI}
    /\ BudgetReached
    /\ pc' = "done"
    /\ current_url' = IF variant = IBD THEN None ELSE current_url
    /\ UNCHANGED <<fetch, export, variant, max_pages, pager, page, page_number, product_links,
                   idx, by_category, visited, processed, extracted, faults,
                   fetches, listingFailed, absorbed, failSnap, raisedBy>>

\* The variants whose loop catches a failure of get_next_page_url.
CatchesNext(v) == v \in {T2, IBD}

\* Pagination: fetch the listing page again for its next-page locator.
NextPage ==
    /\ pc = "items"
    /\ idx > Len(product_links)
    /\ ~(variant \in {T2, IBD, BDI} /\ BudgetReached)
    /\ \E o \in Outcomes :
        LET r == ListerNext(variant, current_url, o)
            next_url == IF r.raised THEN None ELSE r.next
        IN
        /\ MayFail(o # "ok")
        /\ next_url # None => page_number < MaxVisits
        /\ faults' = IF o # "ok" THEN faults + 1 ELSE faults
        /\ fetches' = fetches + 1
        /\ listingFailed' = (listingFailed \/ o # "ok")
        /\ absorbed' = (absorbed \/ (o # "ok" /\ ~r.raised))
        /\ IF r.raised /\ ~CatchesNext(variant)
           THEN /\ pc' = "raised"
                /\ raisedBy' = "next"
                /\ UNCHANGED <<current_url, page_number>>
           ELSE /\ current_url' = next_url
                /\ page_number' = IF next_url # None \/ variant \in {ABD, CBD}
                                  THEN page_number + 1 ELSE page_number
                /\ pc' = IF next_url # None THEN "list" ELSE "done"
                /\ UNCHANGED raisedBy
    /\ UNCHANGED <<fetch, export, variant, max_pages, pager, page, product_links, idx,
                   by_category, visited, processed, extracted, failSnap>>

Next == HeadStop \/ FetchListing \/ ProcessItem \/ BudgetStop \/ NextPage

Spec == Init /\ [][Next]_cvars

\* ------------------------------------------------------- claims on the crawl
Range(f) == {f[i] : i \in DOMAIN f}

IsPrefix(a, b) == Len(a) <= Len(b) /\ SubSeq(b, 1, Len(a)) = a

RECURSIVE Walk(_, _)
\* The first n pages of the chain of listing pages that starts at page p.
Walk(p, n) ==
    IF n = 0 THEN <<>>
    ELSE IF pager[p].kind = "link" THEN <<p>> \o Walk(pager[p].to, n - 1)
    ELSE <<p>>

\* The chain from the start page; it is finite iff it has at most MaxPages pages.
Chain == Walk(1, MaxPages + 1)

\* Every pagination control is a proper link or is absent.
WellFormed == \A p \in Pages : pager[p].kind \in {"none", "link"}

RECURSIVE SumSizes(_)
SumSizes(ps) == IF ps = <<>> THEN 0 ELSE PageSize(Head(ps)) + SumSizes(Tail(ps))

RECURSIVE TotalRecords(_, _)
TotalRecords(group, keys) ==
    IF keys = {} THEN 0
    ELSE LET c == CHOOSE x \in keys : TRUE
         IN  Len(group[c]) + TotalRecords(group, keys \ {c})

AllRecords == UNION {Range(by_category[c]) : c \in DOMAIN by_category}

\* C1 (page budget). With a budget N >= 1, in every variant that takes
\* max_pages: the product loop never runs on more than N pages and no record
\* comes from a page beyond the first N of the chain, at every point of every
\* run; and when the crawl returns, no listing fetch having failed and every
\* pagination control being well formed, the pages crawled are exactly the
\* first min(N, length of the chain) pages of the chain.
C1_PageBudget ==
    (variant \in BudgetVariants /\ max_pages # None) =>
        /\ processed <= max_pages
        /\ \A r \in AllRecords :
               r.product_page_url[1] \in Range(Walk(1, max_pages))
        /\ (pc = "done" /\ ~listingFailed /\ WellFormed) =>
               /\ visited = Walk(1, max_pages)
               /\ processed = Len(Walk(1, max_pages))

\* all_books_data has found the locator of page 2 on page 1 and stops on its
\* budget of one page, with that page's products in the result.
C1_Witness ==
    /\ variant = ABD /\ max_pages = 1 /\ pc = "done"
    /\ current_url = 2 /\ processed = 1 /\ ~listingFailed
    /\ Len(extracted) = PageSize(1)

\* C2 (full crawl without budget). max_pages is None, the site is a finite
\* chain whose last page has no next link and no fetch failed: when the crawl
\* returns it has visited exactly the pages of the chain, once each and in
\* chain order, and the lists of the result hold as many records as the chain
\* has product locators.
C2_FullCrawl ==
    (/\ max_pages = None /\ pc = "done" /\ faults = 0
     /\ WellFormed /\ Len(Chain) <= MaxPages) =>
        /\ visited = Chain
        /\ TotalRecords(by_category, DOMAIN by_category) = SumSizes(Chain)

\* test2_image returns from a two-page site with the records of both pages.
C2_Witness ==
    /\ variant = T2 /\ max_pages = None /\ pc = "done" /\ faults = 0
    /\ WellFormed /\ Chain = <<1, 2>>
    /\ TotalRecords(by_category, DOMAIN by_category) = PageSize(1) + PageSize(2)

\* C3 (per-item failure isolation), as claimed: in every variant a failure of
\* the Extractor or the Asset Fetcher for one product never ends the crawl.
C3_ItemIsolation == raisedBy # "item"

C5_ListerFailureSurfaces == ~absorbed

\* The records inserted under key c, in the order their locators were visited.
RecordsOf(c) ==
    LET Under(e) == e[1] = c
        sel == SelectSeq(extracted, Under)
    IN  [i \in 1..Len(sel) |-> sel[i][2]]

\* C6 (discovery order). At every point of the crawl the keys of the
\* CategoryGroup are the categories of the items processed with success, and
\* the list under each key is exactly those items' records in visiting order.
C6_DiscoveryOrder ==
    /\ DOMAIN by_category = {e[1] : e \in Range(extracted)}
    /\ \A c \in DOMAIN by_category : by_category[c] = RecordsOf(c)

\* A category holds records of two pages while another item of the crawl failed.
C6_Witness ==
    /\ variant \in {T2, IBD}
    /\ "Poetry" \in DOMAIN by_category
    /\ Len(by_category["Poetry"]) >= 2
    /\ by_category["Poetry"][1].product_page_url[1]
           < by_category["Poetry"][2].product_page_url[1]
    /\ faults > 0 /\ ~listingFailed

\* C11 (malformed pagination control), as claimed: whenever the crawl has
\* fetched a listing page with success to find its next page, and the page's
\* pagination control is missing or malformed (no "next" item, no anchor, no
\* href), the crawl is done at once: it does not raise and it visits no other
\* page, nor the same page again.
C11_MalformedPagerEndsCrawl ==
    [][(/\ pc = "items" /\ idx > Len(product_links)
        /\ fetches' = fetches + 1 /\ faults' = faults
        /\ pager[current_url].kind # "link")
           => (pc' = "done" /\ current_url' = None)]_cvars

\* The crawl loops are sequential code whose network calls have a timeout
\* (test2_image, images_book_data: timeout=TIMEOUT): a step that can be taken
\* is taken.
SpecLive == Spec /\ WF_cvars(Next)

\* C20 (termination of test2_image and images_book_data), as claimed: with a
\* page budget N the loop body runs at most N times and the crawl ends,
\* whatever the site and the failures; without a budget the crawl ends
\* whenever the next-page links of the site form a finite chain, having run
\* the loop body at most once per page of the chain.
C20_Termination ==
    /\ [](variant \in {T2, IBD} =>
             /\ max_pages # None => Len(visited) <= max_pages
             /\ (max_pages = None /\ Len(Chain) <= MaxPages) =>
                    Len(visited) <= Len(Chain))
    /\ (variant \in {T2, IBD} /\ (max_pages # None \/ Len(Chain) <= MaxPages))
           ~> (pc = "done")

\* C20, the part that holds in both variants: with a page budget N the loop
\* body runs at most N times and the crawl ends.
C20_BudgetTermination ==
    /\ [](variant \in {T2, IBD} /\ max_pages # None =>
             Len(visited) <= max_pages /\ page_number <= max_pages)
    /\ (variant \in {T2, IBD} /\ max_pages # None) ~> (pc = "done")

\* =========================================================================
\* Part 2: the Asset Fetchers (test2_image.save_image, images_book_data.
\* save_image, books_data_images.download_image), one call after another with
\* the same arguments, over a file system that nothing else writes to.
\* =========================================================================

\* A name is a sequence of tokens: a run of letters and digits ("Poetry"), or
\* one of the single characters "_", "-", " ", "/".
Unsafe == {" ", "/"}

RECURSIVE DropUnsafe(_)
DropUnsafe(s) ==
    IF s # <<>> /\ Head(s) \in Unsafe THEN DropUnsafe(Tail(s)) ELSE s

RECURSIVE SubUnsafe(_)
\* re.sub(r"[^A-Za-z0-9_-]+", "_", s): every run of unsafe characters becomes "_".
SubUnsafe(s) ==
    IF s = <<>> THEN <<>>
    ELSE IF Head(s) \in Unsafe THEN <<"_">> \o SubUnsafe(DropUnsafe(s))
    ELSE <<Head(s)>> \o SubUnsafe(Tail(s))

RECURSIVE LStrip(_)
LStrip(s) == IF s # <<>> /\ Head(s) = "_" THEN LStrip(Tail(s)) ELSE s

RECURSIVE RStrip(_)
RStrip(s) ==
    IF s # <<>> /\ s[Len(s)] = "_" THEN RStrip(SubSeq(s, 1, Len(s) - 1)) ELSE s

\* test2_image.cleaner (books_data_images.cleaner is the same line).
cleaner(s) ==
    LET t == RStrip(LStrip(SubUnsafe(s)))
    IN  IF t = <<>> THEN <<"file">> ELSE t

\* images_book_data.sanitize.
sanitize(s) ==
    LET t == RStrip(LStrip(SubUnsafe(s)))
    IN  IF t = <<>> THEN <<"file">> ELSE t

\* Python's "a or b" on strings.
Or(a, b) == IF a # <<>> THEN a ELSE b

\* os.path.join(folder, base_name + ext), and the same path + ".part".
Path(folder, base, e) == [folder |-> folder, base |-> base, ext |-> e, part |-> FALSE]
Part(path) == [path EXCEPT !.part = TRUE]

\* The empty path "".
NoPath == [folder |-> <<>>, base |-> <<>>, ext |-> "", part |-> FALSE]

\* The arguments the calls are made with.
ImageUrls ==
    {[url |-> "", suffix |-> ""]}
        \cup {[url |-> "img", suffix |-> x] : x \in {"", ".png", ".bmp"}}
Categories == {<<>>, <<"Sci", " ", "Fi">>}
Upcs == {<<>>, <<"upc1">>}
Titles == {<<"A", "/", "B", "_">>}

\* The callers pass the URL of the product page they have just fetched.
referer_url == "product_page_url"

\* What the server may answer to the GET of an image.
CTypes == {"image/jpeg", "image/png", "image/x-icon", "text/html"}
Responses ==
    {[status |-> x, ctype |-> "", total |-> 0] : x \in {"transport", "http"}}
        \cup {[status |-> "ok", ctype |-> ct, total |-> n] :
                 ct \in CTypes, n \in 1..MaxChunks}

IsImage(ct) == ct \in {"image/jpeg", "image/png", "image/x-icon"}

\* test2_image.guess_ext_from_ct, on a lower-case media type without parameters.
guess_ext_from_ct(content_type, default_ext) ==
    CASE content_type = "image/jpeg" -> ".jpg"
      [] content_type = "image/png" -> ".png"
      [] OTHER -> default_ext

\* splitext(basename(url_path))[1].lower() or ".jpg"
T2_ext == IF image_url.suffix # "" THEN image_url.suffix ELSE ".jpg"

T2_dest_path ==
    Path(cleaner(Or(category, <<"Unknown">>)),
         cleaner(Or(upc, Or(title, <<"image">>))), T2_ext)

IBD_ext ==
    IF image_url.suffix \in {".jpg", ".jpeg", ".png", ".gif", ".webp"}
    THEN image_url.suffix ELSE ".jpg"

IBD_dest_path ==
    Path(sanitize(Or(category, <<"Unknown">>)),
         sanitize(Or(upc, Or(title, <<"image">>))), IBD_ext)

BDI_dest ==
    Path(cleaner(category), cleaner(Or(upc, Or(title, <<"image">>))), ".jpg")

DestPath(v) ==
    CASE v = T2 -> T2_dest_path
      [] v = IBD -> IBD_dest_path
      [] v = BDI -> BDI_dest

Exists(fs, path) == path \in DOMAIN fs
Size(fs, path) == fs[path].written

\* The skip-if-exists test of each variant.
T2_cached(fs, d) == Exists(fs, d) /\ Size(fs, d) > 0
IBD_cached(fs, d) == Exists(fs, d)
BDI_cached(fs, d) == Exists(fs, d) /\ Size(fs, d) > 0

CacheHit(v, fs, d) ==
    CASE v = T2 -> T2_cached(fs, d)
      [] v = IBD -> IBD_cached(fs, d)
      [] v = BDI -> BDI_cached(fs, d)

\* The Referer header of the n-th GET of a call ("" is no header).
Referer(v, n) ==
    CASE v = T2 -> IF referer_url # "" THEN referer_url ELSE ""
      [] v = BDI -> referer_url
      [] v = IBD -> IF n = 1 THEN ""
                    ELSE IF referer_url # "" THEN referer_url ELSE ""

\* Mutant of IBD_retries: the except clause takes any request exception.
IBD_retriesAny(status) == status \in {"http", "transport"}

\* images_book_data.save_image: except requests.HTTPError around the first attempt.
IBD_retries(status) == status = "http"

\* What a variant does when the n-th GET of a call fails with status st:
\* "empty" returns "", "raise" lets the exception out, "retry" asks again.
OnGetFailure(v, n, st) ==
    CASE v \in {T2, BDI} -> "empty"
      [] v = IBD -> IF n = 1 /\ IBD_retries(st) THEN "retry" ELSE "raise"

\* Only test2_image refuses a response whose Content-Type is not image/*.
RefusesContentType(v, ct) == v = T2 /\ ~IsImage(ct)

\* The path the stream is written to, given the response.
WritePath(v, d, ct) ==
    CASE v = T2 -> Part([d EXCEPT !.ext = guess_ext_from_ct(ct, d.ext)])
      [] v = BDI -> Part(d)
      [] v = IBD -> d

\* Mutant of FinalPath: the URL's suffix is kept whatever the content type.
FinalPathUrlFirst(v, d, ct) == d

\* The final path of the download, given the response.
FinalPath(v, d, ct) ==
    CASE v = T2 -> [d EXCEPT !.ext = guess_ext_from_ct(ct, d.ext)]
      [] OTHER -> d

\* What a variant does with an exception raised while the stream is written.
OnStreamError(v) == IF v = IBD THEN "raise" ELSE "empty"

\* open(path, "wb"): the file is created, or truncated, to zero chunks.
Open(fs, path, n) ==
    [q \in DOMAIN fs \cup {path} |->
        IF q = path THEN [written |-> 0, total |-> n] ELSE fs[q]]

\* os.replace(tmp, dest)
Replace(fs, tmp, dest) ==
    [q \in (DOMAIN fs \ {tmp}) \cup {dest} |->
        IF q = dest THEN fs[tmp] ELSE fs[q]]

\* os.makedirs(folder, exist_ok=True): the directory is an entry of its own.
Dir(folder) == [folder |-> folder, base |-> <<>>, ext |-> "", part |-> FALSE]
Makedirs(fs, folder) ==
    [q \in DOMAIN fs \cup {Dir(folder)} |->
        IF q \in DOMAIN fs THEN fs[q] ELSE [written |-> 0, total |-> 0]]

Partial(fs) == {q \in DOMAIN fs : fs[q].written < fs[q].total}

\* The summary of a finished call: what it returned ("" is NoPath), whether it
\* raised instead, its GET requests, whether it was a cache hit and on how
\* many chunks, what failed, and the partial files it left.
Summary(ret, raised, rq, hit, cs, fs) ==
    [ret |-> ret, raised |-> raised, gets |-> Len(rq), hit |-> hit,
     hitSize |-> IF hit THEN Size(fs, ret) ELSE 0,
     hitWhole |-> hit => fs[ret].written = fs[ret].total,
     cause |-> cs, partial |-> Partial(fs)]

InitFetch ==
    /\ variant \in {T2, IBD, BDI}
    /\ image_url \in ImageUrls
    /\ category \in Categories
    /\ upc \in Upcs
    /\ title \in Titles
    /\ files = <<>>
    /\ fpc = "idle"
    /\ dest_path = NoPath
    /\ out_path = NoPath
    /\ images_log = <<>>
    /\ reqs = <<>>
    /\ cause = ""
    /\ calls = <<>>
    \* no crawl loop runs
    /\ max_pages = None
    /\ pager = [p \in Pages |-> [kind |-> "none", to |-> None]]
    /\ page = NoPage
    /\ pc = "done"
    /\ current_url = None
    /\ page_number = 1
    /\ product_links = <<>>
    /\ idx = 1
    /\ by_category = EmptyGroup
    /\ visited = <<>>
    /\ processed = 0
    /\ extracted = <<>>
    /\ faults = 0
    /\ fetches = 0
    /\ listingFailed = FALSE
    /\ absorbed = FALSE
    /\ failSnap = [set |-> FALSE, fetches |-> 0, page_number |-> 0,
                   groups |-> EmptyGroup]
    /\ raisedBy = ""
    /\ ExportIdle

\* test2_image.save_image: the record of the call as it is appended to
\* images_log: the initial record, updated on a cache hit, after os.replace,
\* or in the except clause.
T2_record(hit, stored, rq, cs) ==
    LET record == [image_path |-> NoPath, downloaded |-> FALSE,
                   http_status |-> "", error |-> ""]
        status == IF rq # <<>> /\ rq[Len(rq)].status # "transport"
                  THEN rq[Len(rq)].status ELSE ""
    IN  IF hit
        THEN [record EXCEPT !.image_path = stored, !.downloaded = TRUE,
                            !.http_status = "cached"]
        ELSE IF stored # NoPath
        THEN [record EXCEPT !.image_path = stored, !.downloaded = TRUE,
                            !.http_status = status]
        ELSE [record EXCEPT !.http_status = status, !.error = cs]

\* The call returns ret, or raises. test2_image appends its record before
\* every return; an exception raised outside its try appends nothing.
Return(ret, raised, rq, hit, cs, fs) ==
    /\ calls' = Append(calls, Summary(ret, raised, rq, hit, cs, fs))
    /\ images_log' = IF variant = T2 /\ ~raised
                     THEN Append(images_log, T2_record(hit, ret, rq, cs))
                     ELSE images_log
    /\ fpc' = "idle"
    /\ reqs' = rq
    /\ cause' = cs
    /\ files' = fs

\* save_image / download_image is called: the empty-URL return, os.makedirs,
\* the destination path and the skip-if-exists test.
FCall ==
    /\ fpc = "idle"
    /\ Len(calls) < MaxCalls
    /\ \E mk \in BOOLEAN :
        LET d == DestPath(variant)
            fs == Makedirs(files, d.folder)
        IN
        IF image_url.url = ""
        THEN /\ mk
             /\ Return(NoPath, FALSE, <<>>, FALSE, "", files)
             /\ UNCHANGED <<dest_path, out_path>>
        ELSE IF ~mk
        THEN \* os.makedirs raises: the directory could not be created
             /\ ~Exists(files, Dir(d.folder))
             /\ Return(NoPath, TRUE, <<>>, FALSE, "oserror", files)
             /\ UNCHANGED <<dest_path, out_path>>
        ELSE IF CacheHit(variant, fs, d)
        THEN /\ Return(d, FALSE, <<>>, TRUE, "", fs)
             /\ dest_path' = d
             /\ UNCHANGED out_path
        ELSE /\ fpc' = "get"
             /\ dest_path' = d
             /\ reqs' = <<>>
             /\ cause' = ""
             /\ files' = fs
             /\ UNCHANGED <<out_path, images_log, calls>>
    /\ UNCHANGED <<variant, crawl, export, image_url, category, upc, title>>

\* One GET of the image: n is 1 for the first attempt, 2 for the retry.
Get(n) ==
    \E resp \in Responses :
        LET rq == Append(reqs, [referer |-> Referer(variant, n),
                                status |-> resp.status,
                                ctype |-> resp.ctype])
        IN
        IF resp.status # "ok"
        THEN LET what == OnGetFailure(variant, n, resp.status) IN
             IF what = "retry"
             THEN /\ fpc' = "retry"
                  /\ reqs' = rq
                  /\ cause' = resp.status
                  /\ UNCHANGED <<files, dest_path, out_path, images_log, calls>>
             ELSE /\ Return(NoPath, what = "raise", rq, FALSE, resp.status, files)
                  /\ UNCHANGED <<dest_path, out_path>>
        ELSE IF RefusesContentType(variant, resp.ctype)
        THEN /\ Return(NoPath, FALSE, rq, FALSE, "ctype", files)
             /\ UNCHANGED <<dest_path, out_path>>
        ELSE /\ dest_path' = FinalPath(variant, dest_path, resp.ctype)
             /\ out_path' = WritePath(variant, dest_path, resp.ctype)
             /\ files' = Open(files, out_path', resp.total)
             /\ fpc' = "write"
             /\ reqs' = rq
             /\ cause' = IF IsImage(resp.ctype) THEN "" ELSE "ctype"
             /\ UNCHANGED <<images_log, calls>>

FGet ==
    /\ fpc = "get"
    /\ Get(1)
    /\ UNCHANGED <<variant, crawl, export, image_url, category, upc, title>>

\* images_book_data: the second attempt, with the Referer header.
FRetry ==
    /\ fpc = "retry"
    /\ Get(2)
    /\ UNCHANGED <<variant, crawl, export, image_url, category, upc, title>>

\* f.write(chunk)
FWrite ==
    /\ fpc = "write"
    /\ files[out_path].written < files[out_path].total
    /\ files' = [files EXCEPT ![out_path].written = @ + 1]
    /\ UNCHANGED <<variant, crawl, export, image_url, category, upc, title, fpc,
                   dest_path, out_path, images_log, reqs, cause, calls>>

\* iter_content or f.write raises before the last chunk is written.
FStreamFail ==
    /\ fpc = "write"
    /\ files[out_path].written < files[out_path].total
    /\ Return(NoPath, OnStreamError(variant) = "raise", reqs, FALSE, "stream",
              files)
    /\ UNCHANGED <<variant, crawl, export, image_url, category, upc, title,
                   dest_path, out_path>>

\* The stream is exhausted: the file is closed and, where the variant wrote
\* to a ".part" path, moved into place.
FFinish ==
    /\ fpc = "write"
    /\ files[out_path].written = files[out_path].total
    /\ Return(dest_path, FALSE, reqs, FALSE, cause,
              IF out_path # dest_path
              THEN Replace(files, out_path, dest_path) ELSE files)
    /\ UNCHANGED <<variant, crawl, export, image_url, category, upc, title,
                   dest_path, out_path>>

NextFetch == FCall \/ FGet \/ FRetry \/ FWrite \/ FStreamFail \/ FFinish

SpecFetch == InitFetch /\ [][NextFetch]_cvars

\* ------------------------------------------------ claims on the Asset Fetcher
\* C7 (idempotence), as claimed: once a call has returned the path of the
\* stored image, every later call with the same arguments issues no GET and
\* returns that path; and a call skips the download only on a non-empty file.
C7_Idempotent ==
    /\ \A i, j \in DOMAIN calls :
           (i < j /\ calls[i].ret # NoPath) =>
               /\ calls[j].gets = 0
               /\ calls[j].ret = calls[i].ret
    /\ \A j \in DOMAIN calls : calls[j].hit => calls[j].hitSize > 0

\* C8 (atomic write), as claimed: at every point the file at a final path
\* (not a ".part" path) holds a complete image, and so does every file a call
\* returned as a cache hit.
C8_AtomicWrite ==
    /\ \A q \in DOMAIN files : ~q.part => files[q].written = files[q].total
    /\ \A j \in DOMAIN calls : calls[j].hitWhole

\* The call failed for one of the causes the claim lists.
Failed(c) == c.cause \in {"transport", "http", "ctype", "stream"}

\* C9 (failure outcome), as claimed: a call that failed (network error,
\* non-success status, non-image content type, error while streaming) hands
\* the empty path to its caller (images_book_data: through the except clause
\* of scrape_book) and leaves no partial file, at the final path or at the
\* ".part" path.
C9_FailureOutcome ==
    \A j \in DOMAIN calls :
        Failed(calls[j]) => calls[j].ret = NoPath /\ calls[j].partial = {}

\* C10 (retry policy). A call issues at most two GETs; a second one only after
\* the first failed with a non-success status, and then with the Referer
\* header set to the referring page; a transport failure of the first GET and
\* any failure of the second end the call.
C10_RetryPolicy ==
    /\ Len(reqs) <= 2
    /\ Len(reqs) = 2 =>
           /\ reqs[1].status = "http"
           /\ reqs[2].referer = referer_url
    /\ (reqs # <<>> /\ reqs[Len(reqs)].status = "transport") => fpc = "idle"
    /\ (Len(reqs) = 2 /\ reqs[2].status # "ok") => fpc = "idle"
    /\ \A j \in DOMAIN calls : calls[j].gets <= 2

\* images_book_data has retried with the Referer header after an HTTP error,
\* the retry has failed too, and the call has ended after two GETs.
C10_Witness ==
    /\ variant = IBD
    /\ Len(reqs) = 2
    /\ reqs[1].status = "http" /\ reqs[1].referer = ""
    /\ reqs[2].status = "http" /\ reqs[2].referer = referer_url
    /\ fpc = "idle"
    /\ calls # <<>> /\ calls[Len(calls)].gets = 2 /\ calls[Len(calls)].raised

\* The extension the claim gives for a content type and a URL suffix: the one
\* mapped from a known image type, else the suffix, else ".jpg".
ClaimedExt(ct, suffix) ==
    CASE ct = "image/jpeg" -> ".jpg"
      [] ct = "image/png" -> ".png"
      [] OTHER -> IF suffix # "" THEN suffix ELSE ".jpg"

\* The destination the claim gives: sanitized category, sanitized identifier
\* or title, and that extension.
ClaimedDest(ct) ==
    Path(cleaner(Or(category, <<"Unknown">>)),
         cleaner(Or(upc, Or(title, <<"image">>))),
         ClaimedExt(ct, image_url.suffix))

\* C18 (extension precedence in test2_image.save_image). While a download is
\* written, and when it has been stored, its destination is the claimed one
\* for the content type of the response and the suffix of the URL: the stream
\* goes to that path + ".part", and the stored file is at that path, which the
\* call returns.
C18_ExtensionPrecedence ==
    variant = T2 =>
        /\ fpc = "write" =>
               /\ dest_path = ClaimedDest(reqs[Len(reqs)].ctype)
               /\ out_path = Part(dest_path)
               /\ Exists(files, out_path)
        /\ (/\ fpc = "idle" /\ calls # <<>>
            /\ calls[Len(calls)].ret # NoPath /\ ~calls[Len(calls)].hit) =>
               /\ calls[Len(calls)].ret = ClaimedDest(reqs[Len(reqs)].ctype)
               /\ Exists(files, calls[Len(calls)].ret)
               /\ ~Exists(files, Part(calls[Len(calls)].ret))

\* The URL ends in ".bmp" and the server declares image/png: the image has
\* been stored under ".png".
C18_Witness ==
    /\ variant = T2 /\ fpc = "idle" /\ calls # <<>>
    /\ image_url.suffix = ".bmp"
    /\ reqs # <<>> /\ reqs[Len(reqs)].ctype = "image/png"
    /\ calls[Len(calls)].ret # NoPath /\ ~calls[Len(calls)].hit
    /\ calls[Len(calls)].ret.ext = ".png"
    /\ Exists(files, calls[Len(calls)].ret)

\* C19 (ImageDownloadLog completeness in test2_image), as claimed: every call
\* of save_image has appended exactly one entry to images_log, in call order;
\* in each entry downloaded is true exactly when image_path is not empty, and
\* image_path is what the call handed back to the crawl loop.
C19_LogComplete ==
    variant = T2 =>
        /\ Len(images_log) = Len(calls)
        /\ \A j \in DOMAIN images_log :
               /\ images_log[j].downloaded <=> images_log[j].image_path # NoPath
               /\ j \in DOMAIN calls => images_log[j].image_path = calls[j].ret

\* The same on the calls that return (empty URL, cache hit, download stored,
\* download failed): each has its entry.
C19_LogOfReturns ==
    variant = T2 =>
        LET Returned(c) == ~c.raised
            rets == SelectSeq(calls, Returned)
        IN  /\ Len(images_log) = Len(rets)
            /\ \A j \in DOMAIN images_log :
                   /\ images_log[j].downloaded
                          <=> images_log[j].image_path # NoPath
                   /\ images_log[j].image_path = rets[j].ret

\* =========================================================================
\* Part 3: the Extractor on the product page. The crawl loop has fetched
\* listing page 1 and processes its products; the site serves the same
\* product page (table, rows, breadcrumb) under every product URL, and no
\* product page has a gallery image. Texts are sequences of tokens: a word, a
\* run of digits, or one of " ", "(", ")".
\* =========================================================================
MaxCrumbs == 5

Digits == {"0", "19"}

AvailabilityTexts ==
    {<<"In", " ", "stock", " ", "(", "19", " ", "available", ")">>,
     <<"In", " ", "stock">>}

\* The rows of the product attributes table, label -> value: with or without
\* the Availability row.
Rows ==
    {[l \in {"UPC", "Price (incl. tax)", "Price (excl. tax)"} |->
         IF l = "UPC" THEN <<"upc1">> ELSE <<"51.77">>]}
        \cup {[l \in {"UPC", "Price (incl. tax)", "Price (excl. tax)",
                      "Availability"} |->
                  IF l = "UPC" THEN <<"upc1">>
                  ELSE IF l = "Availability" THEN t ELSE <<"51.77">>] :
                 t \in AvailabilityTexts}

\* Entry i of a breadcrumb trail of n entries: Home, Books, the categories,
\* and the title of the book.
CrumbText(i, n) ==
    IF i = n THEN <<"Title">>
    ELSE IF i = 1 THEN <<"Home">>
    ELSE IF i = 2 THEN <<"Books">>
    ELSE <<"Category", ToString(i - 2)>>

\* ul.breadcrumb: every entry but the last (the active one) is a link.
Trail(n) == [i \in 1..n |-> [text |-> CrumbText(i, n), link |-> i < n]]

ProductPages ==
    {[table |-> FALSE, rows |-> NoRows, crumbs |-> Trail(n)] :
        n \in 0..MaxCrumbs}
        \cup {[table |-> TRUE, rows |-> r, crumbs |-> Trail(n)] :
                 r \in Rows, n \in 0..MaxCrumbs}

\* dict.get(k, default)
Lookup(d, k, default) == IF k \in DOMAIN d THEN d[k] ELSE default

\* d[k] = v on a dict
With(d, k, v) == [f \in DOMAIN d \cup {k} |-> IF f = k THEN v ELSE d[f]]

RECURSIVE DropUntil(_, _)
\* The tokens of s after the first c (none when s has no c).
DropUntil(s, c) ==
    IF s = <<>> THEN <<>>
    ELSE IF Head(s) = c THEN Tail(s) ELSE DropUntil(Tail(s), c)

RECURSIVE TakeUntil(_, _)
\* The tokens of s before the first c (all of s when s has no c).
TakeUntil(s, c) ==
    IF s = <<>> \/ Head(s) = c THEN <<>>
    ELSE <<Head(s)>> \o TakeUntil(Tail(s), c)

RECURSIVE FirstNumber(_)
\* re.search(r"(\d+)", val): the first run of digits, <<>> when there is none.
FirstNumber(s) ==
    IF s = <<>> THEN <<>>
    ELSE IF Head(s) \in Digits THEN <<Head(s)>> ELSE FirstNumber(Tail(s))

\* soup.select("table.table.table-striped tr"): no row when there is no table.
SelectRows(pg) == IF pg.table THEN pg.rows ELSE NoRows

\* [extract_text(li) for li in soup.select("ul.breadcrumb li")]
CrumbTexts(pg) == [i \in 1..Len(pg.crumbs) |-> pg.crumbs[i].text]

\* soup.select("ul.breadcrumb li a")
IsLink(e) == e.link
bc_links(pg) == SelectSeq(pg.crumbs, IsLink)

\* crumbs[2] if len(crumbs) >= 4 else "Default"
T2_category(pg) ==
    IF Len(CrumbTexts(pg)) >= 4 THEN CrumbTexts(pg)[3] ELSE <<"Default">>

\* test2_image.extract_book_data on the page served for u.
T2_extract_book_data_page(u, pg) ==
    LET data == SelectRows(pg) IN
    [raised |-> FALSE,
     data |-> [title |-> <<"Title">>,
               upc |-> Lookup(data, "UPC", <<>>),
               price_incl_tax_gbp |-> Lookup(data, "Price (incl. tax)", <<>>),
               price_excl_tax_gbp |-> Lookup(data, "Price (excl. tax)", <<>>),
               availability |-> Lookup(data, "Availability", <<>>),
               description |-> <<>>,
               category |-> T2_category(pg),
               product_page_url |-> u,
               image_url |-> <<>>]]

\* The body of the per-item try of test2_image.scrape_all_books; save_image
\* returns "" on the empty image URL.
T2_page_item(u, pg) ==
    LET r == T2_extract_book_data_page(u, pg)
        data == With(r.data, "image_path", <<>>)
    IN  [raised |-> r.raised,
         key |-> Or(data.category, <<"Default">>),
         data |-> data]

BDI_category(pg) ==
    IF Len(CrumbTexts(pg)) >= 4 THEN CrumbTexts(pg)[3] ELSE <<"Default">>

BDI_extract_book_data_page(u, pg) ==
    LET specs == SelectRows(pg) IN
    [raised |-> FALSE,
     data |-> [title |-> <<"Title">>,
               upc |-> Lookup(specs, "UPC", <<>>),
               price_incl_tax_gbp |-> Lookup(specs, "Price (incl. tax)", <<>>),
               price_excl_tax_gbp |-> Lookup(specs, "Price (excl. tax)", <<>>),
               availability |-> Lookup(specs, "Availability", <<>>),
               description |-> <<>>,
               category |-> BDI_category(pg),
               product_page_url |-> u,
               image_url |-> <<>>]]

BDI_page_item(u, pg) ==
    LET r == BDI_extract_book_data_page(u, pg)
        d == With(r.data, "image_path", <<>>)
    IN  [raised |-> r.raised, key |-> Or(d.category, <<"Default">>), data |-> d]

\* m.group(1) if m else "0", only when the table has an Availability row.
IBD_availability(pg) ==
    IF pg.table /\ "Availability" \in DOMAIN pg.rows
    THEN LET m == FirstNumber(pg.rows["Availability"])
         IN  IF m # <<>> THEN m ELSE <<"0">>
    ELSE <<>>

\* The last <a> of the breadcrumb when it has at least three, else "Unknown".
IBD_category(pg) ==
    IF Len(bc_links(pg)) >= 3
    THEN bc_links(pg)[Len(bc_links(pg))].text ELSE <<"Unknown">>

IBD_scrape_book_page(u, pg) ==
    [raised |-> FALSE,
     data |-> [title |-> <<"Title">>,
               upc |-> IF pg.table THEN Lookup(pg.rows, "UPC", <<>>) ELSE <<>>,
               price_incl_tax_gbp |->
                   IF pg.table THEN Lookup(pg.rows, "Price (incl. tax)", <<>>)
                   ELSE <<>>,
               price_excl_tax_gbp |->
                   IF pg.table THEN Lookup(pg.rows, "Price (excl. tax)", <<>>)
                   ELSE <<>>,
               availability |-> IBD_availability(pg),
               description |-> <<>>,
               category |-> IBD_category(pg),
               product_page_url |-> u,
               image_url |-> <<>>,
               image_path |-> <<>>]]

IBD_page_item(u, pg) ==
    LET r == IBD_scrape_book_page(u, pg)
    IN  [raised |-> r.raised,
         key |-> Or(r.data.category, <<"Unknown">>),
         data |-> r.data]

\* value.split('(')[1].split(' ')[0] if '(' in value else "0"
ABD_availability(pg) ==
    IF pg.table /\ "Availability" \in DOMAIN pg.rows
    THEN LET value == pg.rows["Availability"]
         IN  IF \E i \in DOMAIN value : value[i] = "("
             THEN TakeUntil(TakeUntil(DropUntil(value, "("), "("), " ")
             ELSE <<"0">>
    ELSE <<>>

ABD_category(pg) ==
    IF Len(bc_links(pg)) >= 3
    THEN bc_links(pg)[Len(bc_links(pg))].text ELSE <<"Unknown">>

ABD_scrape_book_page(u, pg) ==
    [raised |-> FALSE,
     data |-> [title |-> <<"Title">>,
               upc |-> IF pg.table THEN Lookup(pg.rows, "UPC", <<>>) ELSE <<>>,
               price_with_tax |->
                   IF pg.table THEN Lookup(pg.rows, "Price (incl. tax)", <<>>)
                   ELSE <<>>,
               price_without_tax |->
                   IF pg.table THEN Lookup(pg.rows, "Price (excl. tax)", <<>>)
                   ELSE <<>>,
               availability |-> ABD_availability(pg),
               description |-> <<"Pas de description">>,
               category |-> ABD_category(pg),
               product_url |-> u]]

ABD_page_item(u, pg) ==
    LET r == ABD_scrape_book_page(u, pg)
    IN  [raised |-> r.raised,
         key |-> Or(r.data.category, <<"Unknown">>),
         data |-> r.data]

CBD_availability(pg) ==
    IF "Availability" \in DOMAIN pg.rows
    THEN LET value == pg.rows["Availability"]
         IN  IF \E i \in DOMAIN value : value[i] = "("
             THEN TakeUntil(TakeUntil(DropUntil(value, "("), "("), " ")
             ELSE <<"0">>
    ELSE <<>>

\* category_books_data.scrape_book: table.find_all raises AttributeError when
\* soup.find returned None.
CBD_scrape_book_page(u, pg) ==
    [raised |-> ~pg.table,
     data |-> [title |-> <<"Title">>,
               upc |-> Lookup(pg.rows, "UPC", <<>>),
               price_with_tax |-> Lookup(pg.rows, "Price (incl. tax)", <<>>),
               price_without_tax |-> Lookup(pg.rows, "Price (excl. tax)", <<>>),
               availability |-> CBD_availability(pg),
               description |-> <<"Pas de description">>,
               product_url |-> u]]

CBD_page_item(u, pg) ==
    LET r == CBD_scrape_book_page(u, pg)
    IN  [raised |-> r.raised, key |-> <<"all_books_data">>, data |-> r.data]

PageItem(v, u, pg) ==
    CASE v = T2 -> T2_page_item(u, pg)
      [] v = IBD -> IBD_page_item(u, pg)
      [] v = BDI -> BDI_page_item(u, pg)
      [] v = ABD -> ABD_page_item(u, pg)
      [] v = CBD -> CBD_page_item(u, pg)

InitPage ==
    /\ variant \in Variants
    /\ max_pages \in IF variant \in BudgetVariants THEN {None, 1} ELSE {None}
    /\ pager = [p \in Pages |-> [kind |-> "none", to |-> None]]
    /\ page \in ProductPages
    /\ pc = "items"
    /\ current_url = 1
    /\ page_number = 1
    /\ product_links = ProductLinks(1)
    /\ idx = 1
    /\ by_category = EmptyGroup
    /\ visited = <<1>>
    /\ processed = 1
    /\ extracted = <<>>
    /\ faults = 0
    /\ fetches = 1
    /\ listingFailed = FALSE
    /\ absorbed = FALSE
    /\ failSnap = [set |-> FALSE, fetches |-> 0, page_number |-> 0,
                   groups |-> EmptyGroup]
    /\ raisedBy = ""
    /\ FetchIdle
    /\ ExportIdle

\* One turn of the product loop on a product page fetched with success.
ExtractItem ==
    /\ pc = "items"
    /\ idx <= Len(product_links)
    /\ LET r == PageItem(variant, product_links[idx], page) IN
       IF r.raised
       THEN /\ UNCHANGED <<by_category, extracted>>
            /\ IF CatchesItem(variant)
               THEN /\ idx' = idx + 1
                    /\ UNCHANGED <<pc, raisedBy>>
               ELSE /\ pc' = "raised"
                    /\ raisedBy' = "item"
                    /\ UNCHANGED idx
       ELSE /\ by_category' = Insert(by_category, r.key, r.data)
            /\ extracted' = Append(extracted, <<r.key, r.data>>)
            /\ idx' = idx + 1
            /\ UNCHANGED <<pc, raisedBy>>
    /\ fetches' = fetches + 1
    /\ UNCHANGED <<fetch, export, variant, max_pages, pager, page, current_url,
                   page_number, product_links, visited, processed, faults,
                   listingFailed, absorbed, failSnap>>

NextPageSpec == ExtractItem \/ BudgetStop \/ NextPage

SpecPage == InitPage /\ [][NextPageSpec]_cvars

\* ------------------------------------------------- claims on the Extractor
\* C12 (absent specification table), as claimed: when the product pages have
\* no attributes table, no record is inserted for them and the crawl does not
\* abort: each one is a per-item failure and the loop goes on.
C12_AbsentTableIsItemFailure ==
    ~page.table =>
        /\ extracted = <<>> /\ by_category = EmptyGroup
        /\ pc # "raised"

\* The count the claim reads in an availability text: the digits that follow
\* an opening parenthesis, "0" when the text has none or the row is absent.
ParenCount(pg) ==
    LET value == Lookup(pg.rows, "Availability", <<>>)
        at == {i \in 1..(Len(value) - 1) :
                  value[i] = "(" /\ value[i + 1] \in Digits}
    IN  IF at = {} THEN <<"0">>
        ELSE <<value[(CHOOSE i \in at : \A j \in at : i <= j) + 1]>>

\* C16 (availability parsing), as claimed: the availability of every record
\* extracted from a product page with an attributes table is the count in the
\* parentheses of the Availability text ("19"), and "0" when the text has no
\* count or the table has no Availability row.
C16_AvailabilityParsing ==
    page.table =>
        \A e \in Range(extracted) : e[2].availability = ParenCount(page)

\* The fixed default category label of a variant.
DefaultCategory(v) == IF v \in {T2, BDI} THEN <<"Default">> ELSE <<"Unknown">>

\* C17 (category resolution), as claimed: in the variants that resolve a
\* category, the category of every record is the second-to-last entry of the
\* breadcrumb trail when the trail has at least four entries, and the default
\* label of the variant otherwise.
C17_CategoryResolution ==
    variant # CBD =>
        \A e \in Range(extracted) :
            e[2].category =
                IF Len(page.crumbs) >= 4
                THEN page.crumbs[Len(page.crumbs) - 1].text
                ELSE DefaultCategory(variant)

\* =========================================================================
\* Part 4: the Exporter (test2_image.write_category_csvs, books_data_images.
\* write_csvs, the export loops of images_book_data and all_books_data), on
\* the CategoryGroup a crawl of the same variant has returned.
\* =========================================================================
MaxRows == 2

\* Category names: "Poetry", "Sci Fi", "Sci/Fi", "Sci-Fi".
ExportNames ==
    {<<"Poetry">>, <<"Sci", " ", "Fi">>, <<"Sci", "/", "Fi">>,
     <<"Sci", "-", "Fi">>}

ExportVariants == {T2, IBD, BDI, ABD}

\* The orders in which a dict may hold the keys S.
Orders(S) ==
    {q \in [1..Cardinality(S) -> S] :
        \A i, j \in 1..Cardinality(S) : i # j => q[i] # q[j]}

\* A product page of the site as it is: table with all rows, four breadcrumbs.
StdPage ==
    [table |-> TRUE,
     rows |-> [l \in {"UPC", "Price (incl. tax)", "Price (excl. tax)",
                      "Availability"} |->
                  IF l = "UPC" THEN <<"upc1">>
                  ELSE IF l = "Availability" THEN <<"In", " ", "stock">>
                  ELSE <<"51.77">>],
     crumbs |-> Trail(4)]

\* The n records a crawl of variant v has put under category c.
ExportRows(v, c, n) ==
    [i \in 1..n |-> With(PageItem(v, <<1, i>>, StdPage).data, "category", c)]

\* The keys of a record of each variant, in the order of its dict.
T2_keys ==
    <<"title", "upc", "price_incl_tax_gbp", "price_excl_tax_gbp",
      "availability", "description", "category", "product_page_url",
      "image_url", "image_path">>
ABD_keys ==
    <<"title", "upc", "price_with_tax", "price_without_tax", "availability",
      "description", "category", "product_url">>
Keys(v) == IF v = ABD THEN ABD_keys ELSE T2_keys

wanted_cols ==
    <<"title", "upc", "price_incl_tax_gbp", "price_excl_tax_gbp",
      "availability", "description", "category", "product_page_url",
      "image_url", "image_path">>

\* pd.DataFrame(rows).columns: the keys the rows have, in dict order.
DataFrameColumns(v, rows) ==
    LET Has(k) == \E i \in DOMAIN rows : k \in DOMAIN rows[i]
    IN  SelectSeq(Keys(v), Has)

\* for c in wanted_cols: if c not in df.columns: df[c] = ""; df = df[wanted_cols]
\* all_books_data writes the frame as it is.
ExportColumns(v, rows) ==
    IF v = ABD THEN DataFrameColumns(v, rows) ELSE wanted_cols

\* The cell of a row under column k: empty when the row has no such key.
Cell(row, k) == IF k \in DOMAIN row THEN row[k] ELSE <<>>

\* df.to_csv(out_path, index=False): a header line and one line per row.
to_csv(v, c, rows) ==
    LET header == ExportColumns(v, rows) IN
    [category |-> c,
     header |-> header,
     lines |-> [i \in DOMAIN rows |->
                   [j \in DOMAIN header |-> Cell(rows[i], header[j])]],
     complete |-> TRUE]

\* A file the write of which broke after it was opened.
Truncated(c) == [category |-> c, header |-> <<>>, lines |-> <<>>,
                 complete |-> FALSE]

\* category_name.replace("/", "-").replace("\\", "-").strip() or "Unknown"
ABD_safe_name(s) ==
    LET r == [i \in DOMAIN s |-> IF s[i] \in {"/", "\\"} THEN "-" ELSE s[i]]
        RECURSIVE L(_)
        L(t) == IF t # <<>> /\ Head(t) = " " THEN L(Tail(t)) ELSE t
        RECURSIVE R(_)
        R(t) == IF t # <<>> /\ t[Len(t)] = " "
                THEN R(SubSeq(t, 1, Len(t) - 1)) ELSE t
    IN  Or(R(L(r)), <<"Unknown">>)

\* The name of the file of a category (before ".csv").
safe_name(v, c) ==
    CASE v \in {T2, BDI} -> cleaner(c)
      [] v = IBD -> sanitize(c)
      [] v = ABD -> ABD_safe_name(c)

\* Writing the file under name f.
Store(fs, f, file) ==
    [g \in DOMAIN fs \cup {f} |-> IF g = f THEN file ELSE fs[g]]

InitExport ==
    /\ variant \in ExportVariants
    /\ todo \in UNION {Orders(S) : S \in (SUBSET ExportNames) \ {{}}}
    /\ \E n \in [Range(todo) -> 1..MaxRows] :
           by_category = [c \in Range(todo) |-> ExportRows(variant, c, n[c])]
    /\ csvs = NoRows
    /\ epc = "write"
    /\ categories_written = 0
    /\ total = 0
    /\ failed = {}
    \* the crawl has returned
    /\ max_pages = None
    /\ pager = [p \in Pages |-> [kind |-> "none", to |-> None]]
    /\ page = NoPage
    /\ pc = "done"
    /\ current_url = None
    /\ page_number = 1
    /\ product_links = <<>>
    /\ idx = 1
    /\ visited = <<>>
    /\ processed = 0
    /\ extracted = <<>>
    /\ faults = 0
    /\ fetches = 0
    /\ listingFailed = FALSE
    /\ absorbed = FALSE
    /\ failSnap = [set |-> FALSE, fetches |-> 0, page_number |-> 0,
                   groups |-> EmptyGroup]
    /\ raisedBy = ""
    /\ FetchIdle

\* One turn of the export loop: the file of the next category is written.
WriteCsv ==
    /\ epc = "write"
    /\ todo # <<>>
    /\ LET category_name == Head(todo)
           rows == by_category[category_name]
           out == safe_name(variant, category_name)
       IN  /\ csvs' = Store(csvs, out, to_csv(variant, category_name, rows))
           /\ total' = total + Len(rows)
    /\ categories_written' = categories_written + 1
    /\ todo' = Tail(todo)
    /\ UNCHANGED <<variant, crawl, fetch, epc, failed>>

\* to_csv raises OSError: the file cannot be opened, or the write breaks. No
\* export loop has a try/except: the exception ends the export.
WriteFails ==
    /\ epc = "write"
    /\ todo # <<>>
    /\ LET category_name == Head(todo)
           out == safe_name(variant, category_name)
       IN  /\ \E opened \in BOOLEAN :
                csvs' = IF opened
                        THEN Store(csvs, out, Truncated(category_name))
                        ELSE csvs
           /\ failed' = failed \cup {category_name}
           /\ total' = IF variant = BDI THEN total
                       ELSE total + Len(by_category[category_name])
    /\ epc' = "raised"
    /\ UNCHANGED <<variant, crawl, fetch, todo, categories_written>>

\* The loop is over: the Exporter returns.
ExportDone ==
    /\ epc = "write"
    /\ todo = <<>>
    /\ epc' = "done"
    /\ UNCHANGED <<variant, crawl, fetch, csvs, todo, categories_written,
                   total, failed>>

NextExport == WriteCsv \/ WriteFails \/ ExportDone

SpecExport == InitExport /\ [][NextExport]_cvars

\* -------------------------------------------------- claims on the Exporter
\* The file written for category c, when there is one.
FileOf(c) == {f \in DOMAIN csvs : csvs[f].category = c /\ csvs[f].complete}

\* C13 (column completeness), as claimed: every file written has exactly the
\* ten fixed columns in the fixed order and one line per record of its
\* category, in record order, each line holding the record's values (empty
\* where the record has none).
C13_ColumnCompleteness ==
    \A f \in DOMAIN csvs :
        csvs[f].complete =>
            LET rows == by_category[csvs[f].category] IN
            /\ csvs[f].header = wanted_cols
            /\ Len(csvs[f].lines) = Len(rows)
            /\ \A i \in DOMAIN rows : \A j \in DOMAIN wanted_cols :
                   csvs[f].lines[i][j] = Cell(rows[i], wanted_cols[j])

\* C14 (export error isolation), as claimed: when the export is over, every
\* category the write of which did not fail has its file.
C14_ExportErrorIsolation ==
    epc \in {"done", "raised"} =>
        \A c \in DOMAIN by_category : c \notin failed => FileOf(c) # {}

\* C15 (one file per category), as claimed: no two categories have the same
\* file name, and after an export without failure there are as many files as
\* categories, each holding the records of its own category.
C15_OneFilePerCategory ==
    /\ \A c, d \in DOMAIN by_category :
           c # d => safe_name(variant, c) # safe_name(variant, d)
    /\ epc = "done" =>
           /\ Cardinality(DOMAIN csvs) = Cardinality(DOMAIN by_category)
           /\ \A c \in DOMAIN by_category :
                  /\ FileOf(c) = {safe_name(variant, c)}
                  /\ Len(csvs[safe_name(variant, c)].lines) = Len(by_category[c])

====
